---- MODULE Spec2Model ----
(***************************************************************************)
(* A model of jinja2/_speedups.c: the module initialisation                *)
(* (init_speedups / init_constants), the escaper escape_unicode, stepped   *)
(* statement by statement, and the dispatching entry point escape.         *)
(*                                                                         *)
(* Codepoints are naturals.  A unicode object is the sequence of its       *)
(* codepoints; its buffer holds one more cell, a terminating 0, as every   *)
(* PyUnicodeObject does.  C pointers into a buffer are 0-based indices.    *)
(***************************************************************************)
EXTENDS Integers, Sequences, FiniteSets, TLC

\* ------------------------------------------------------------------ bounds
\* Longest input text handed to escape.
MaxLen == 3

\* ------------------------------------------------------- program constants
ESCAPED_CHARS_TABLE_SIZE == 63

\* The five table indices written by init_constants: '"' '\'' '&' '<' '>'.
QUOT == 34
APOS == 39
AMP == 38
LT == 60
GT == 62

\* The C string literals handed to UNICHR, as their bytes.
LitQuot == <<38, 35, 51, 52, 59>>
LitApos == <<38, 35, 51, 57, 59>>
LitAmp == <<38, 97, 109, 112, 59>>
LitLt == <<38, 108, 116, 59>>
LitGt == <<38, 103, 116, 59>>

\* A null pointer / a failed call.
NULL == [kind |-> "NULL"]

\* An entry of escaped_chars_repl that was never assigned: the null pointer
\* of a zero-initialised static array.
NullRepl == <<>>

\* Codepoints the inputs are drawn from: the NUL codepoint, the five
\* escapable characters, '#' (below the table size, not escapable), '?'
\* (63, the first value past the table), and one value far above it.
Alphabet == {0, QUOT, APOS, AMP, LT, GT, 35, 63, 8364}

RECURSIVE SeqsUpTo(_)
SeqsUpTo(n) ==
  IF n = 0 THEN {<<>>}
  ELSE LET shorter == SeqsUpTo(n - 1)
       IN  shorter \cup {Append(s, c) : s \in {t \in shorter : Len(t) = n - 1}, c \in Alphabet}

Texts == SeqsUpTo(MaxLen)

VARIABLES
  ipc,                      \* position of init_speedups / init_constants
  escaped_chars_delta_len,  \* static Py_ssize_t[63]
  escaped_chars_repl,       \* static Py_UNICODE*[63]
  markup,                   \* static PyObject* markup
  registered,               \* Py_InitModule3 has run
  pc,                       \* position of the running call of escape
  text,                     \* escape's argument
  eu,                       \* the frame of escape_unicode
  s,                        \* escape's local s
  rv,                       \* escape's local rv / its return value
  obs,                      \* what the running call did (history)
  reapplied                 \* the running call's argument is the previous call's result

vars == <<ipc, escaped_chars_delta_len, escaped_chars_repl, markup, registered,
          pc, text, eu, s, rv, obs, reapplied>>

tableVars == <<escaped_chars_delta_len, escaped_chars_repl>>
callVars == <<pc, text, eu, s, rv, obs, reapplied>>

\* ------------------------------------------------------------ init_constants
TableIndex == 0 .. (ESCAPED_CHARS_TABLE_SIZE - 1)

\* UNICHR(x): PyUnicode_DecodeASCII(x, strlen(x), NULL)->str.  Each byte below
\* 128 becomes the codepoint of that value; any other byte fails the decode.
UNICHR(bytes) ==
  IF \A i \in 1 .. Len(bytes) : bytes[i] < 128
  THEN [i \in 1 .. Len(bytes) |-> bytes[i]]
  ELSE NullRepl

\* The five assignments of lines 27-31, in order.
ReplAssignments ==
  << <<QUOT, LitQuot>>, <<APOS, LitApos>>, <<AMP, LitAmp>>, <<LT, LitLt>>, <<GT, LitGt>> >>

\* Lines 35-36: the entries set to 4.
DeltaFourIndices == {QUOT, APOS, AMP}
DeltaFour == 4

\* Line 37: the entries set to 3.
\* (Variant: the entry of '>' left at 0.)
DeltaThreeIndicesMutant == {LT}
DeltaThreeIndices == {LT, GT}
DeltaThree == 3

\* The positions of those assignments, and what follows a position.
ReplSteps == <<"repl_quot", "repl_apos", "repl_amp", "repl_lt", "repl_gt">>
ReplStepNo(p) == CHOOSE k \in 1 .. Len(ReplSteps) : ReplSteps[k] = p
AtReplStep == \E k \in 1 .. Len(ReplSteps) : ReplSteps[k] = ipc
AfterReplStep(k) == IF k < Len(ReplSteps) THEN ReplSteps[k + 1] ELSE "memset"

\* One assignment escaped_chars_repl[c] = UNICHR(lit).
SetRepl ==
  /\ AtReplStep
  /\ LET k == ReplStepNo(ipc)
     IN  /\ escaped_chars_repl' =
              [escaped_chars_repl EXCEPT ![ReplAssignments[k][1]] = UNICHR(ReplAssignments[k][2])]
         /\ ipc' = AfterReplStep(k)
  /\ UNCHANGED <<escaped_chars_delta_len, markup, registered, callVars>>

\* PyUnicode_DecodeASCII returns NULL (out of memory) and the macro reads
\* ->str through it: the process dies inside init_constants.
SetReplCrash ==
  /\ AtReplStep
  /\ ipc' = "crashed"
  /\ UNCHANGED <<tableVars, markup, registered, callVars>>

\* memset(escaped_chars_delta_len, 0, sizeof (escaped_chars_delta_len)).
Memset ==
  /\ ipc = "memset"
  /\ escaped_chars_delta_len' = [i \in TableIndex |-> 0]
  /\ ipc' = "delta4"
  /\ UNCHANGED <<escaped_chars_repl, markup, registered, callVars>>

SetDeltaFour ==
  /\ ipc = "delta4"
  /\ escaped_chars_delta_len' =
       [i \in TableIndex |-> IF i \in DeltaFourIndices THEN DeltaFour
                             ELSE escaped_chars_delta_len[i]]
  /\ ipc' = "delta3"
  /\ UNCHANGED <<escaped_chars_repl, markup, registered, callVars>>

SetDeltaThree ==
  /\ ipc = "delta3"
  /\ escaped_chars_delta_len' =
       [i \in TableIndex |-> IF i \in DeltaThreeIndices THEN DeltaThree
                             ELSE escaped_chars_delta_len[i]]
  /\ ipc' = "import"
  /\ UNCHANGED <<escaped_chars_repl, markup, registered, callVars>>

\* PyImport_ImportModule("jinja2.utils") succeeds.
ImportUtils ==
  /\ ipc = "import"
  /\ ipc' = "getattr"
  /\ UNCHANGED <<tableVars, markup, registered, callVars>>

\* PyImport_ImportModule fails: init_constants returns 0 and init_speedups
\* returns without registering the module.
ImportUtilsFail ==
  /\ ipc = "import"
  /\ ipc' = "init_failed"
  /\ UNCHANGED <<tableVars, markup, registered, callVars>>

\* markup = PyObject_GetAttrString(module, "Markup"); the result is not
\* checked, init_constants returns 1 either way.
GetMarkup ==
  /\ ipc = "getattr"
  /\ \E m \in {[kind |-> "type", name |-> "Markup"], NULL} : markup' = m
  /\ ipc' = "initmodule"
  /\ UNCHANGED <<tableVars, registered, callVars>>

\* Py_InitModule3("jinja2._speedups", module_methods, "").  When the attribute
\* lookup failed its exception is still pending: the loader raises it and the
\* import of jinja2._speedups fails, so the importer does not get the
\* functions.
InitModule ==
  /\ ipc = "initmodule"
  /\ registered' = TRUE
  /\ ipc' = IF markup = NULL THEN "import_error" ELSE "ready"
  /\ UNCHANGED <<tableVars, markup, callVars>>

\* escape can be called: the import of the module has returned it.
Callable == registered /\ ipc = "ready"

\* ------------------------------------------------------------------ values
\* Python objects, by what escape asks of them.  "str" is the text of a
\* unicode object, or what unicode(v) yields for any other object.
NumericKinds == {"int", "long", "float", "bool", "none"}

IntValue == [kind |-> "int", str |-> <<52, 50>>]
LongValue == [kind |-> "long", str |-> <<55>>]
FloatValue == [kind |-> "float", str |-> <<49, 46, 53>>]
BoolValue == [kind |-> "bool", str |-> <<84, 114, 117, 101>>]
NoneValue == [kind |-> "none", str |-> <<78, 111, 110, 101>>]

Unicode(t) == [kind |-> "unicode", str |-> t]

\* An instance of jinja2.utils.Markup: a unicode subclass.
MarkupOf(t) == [kind |-> "markup", str |-> t]

\* An object with an __html__ method returning r (NULL: the method raises).
HtmlObject(r) == [kind |-> "htmlobj", html |-> r]

\* Any other object: unicode(v) yields t, or raises.
Object(t) == [kind |-> "object", fails |-> FALSE, str |-> t]
BrokenObject == [kind |-> "object", fails |-> TRUE, str |-> <<>>]

\* Texts carried by the values that are not plain unicode arguments.
SampleTexts == {<<>>, <<35>>, <<LT>>, <<AMP, 63>>}

ArgValues ==
  {IntValue, LongValue, FloatValue, BoolValue, NoneValue}
    \cup {Unicode(t) : t \in Texts}
    \cup {MarkupOf(t) : t \in SampleTexts}
    \cup {HtmlObject(MarkupOf(t)) : t \in SampleTexts}
    \cup {HtmlObject(Unicode(t)) : t \in SampleTexts}
    \cup {HtmlObject(NULL)}
    \cup {Object(t) : t \in SampleTexts}
    \cup {BrokenObject}

\* PyInt_CheckExact || PyLong_CheckExact || PyFloat_CheckExact ||
\* PyBool_Check || text == Py_None.
IsExactNumber(v) == v.kind \in NumericKinds

\* PyUnicode_Check: unicode or a subclass of it.
PyUnicode_Check(v) == v.kind \in {"unicode", "markup"}

\* PyObject_GetAttrString(text, "__html__") finds the attribute.  Markup
\* defines __html__; a plain unicode, and an object without it, do not.
HasHtml(v) == v.kind \in {"markup", "htmlobj"}

\* PyObject_CallObject(html, NULL): Markup.__html__ returns the instance.
CallHtmlOf(v) == IF v.kind = "markup" THEN v ELSE v.html

\* PyObject_Unicode(text): a new unicode object, or NULL.
PyObject_Unicode(v) == IF v.kind = "object" /\ v.fails THEN NULL ELSE Unicode(v.str)

\* The arguments PyObject_CallFunctionObjArgs(callable, a, NULL) passes: the
\* variadic list ends at the first NULL, so a NULL a passes no argument.
CallArgs(a) == IF a = NULL THEN <<>> ELSE <<a>>

\* Markup(*args): the text of its argument as a Markup, Markup() is empty.
CallMarkup(args) == IF Len(args) = 0 THEN MarkupOf(<<>>) ELSE MarkupOf(args[1].str)

\* ----------------------------------------------------------- escape_unicode
\* A cell of PyUnicode_FromUnicode(NULL, size)'s buffer not yet written.
Uninit == -1

\* in->length.
Length(f) == Len(f.in.str)

\* *p for a pointer p at 0-based index i of in->str.  The buffer holds
\* length + 1 cells, the last a 0; no read of the code goes past it.
Deref(f, i) == IF i < Length(f) THEN f.in.str[i + 1] ELSE 0

\* The locals of escape_unicode on entry (lines 52-57).  next_escp, outp and
\* out are assigned before they are read.
EuEntry(in) ==
  [in |-> in, inp |-> 0, delta |-> 0, erepl |-> 0, delta_len |-> 0,
   next_escp |-> 0, outp |-> 0, out |-> <<>>]

NoFrame == [in |-> NULL]

\* c < ESCAPED_CHARS_TABLE_SIZE: the guard in front of every table lookup.
\* (Variant: <= for <.)
InTableMutant(c) == c <= ESCAPED_CHARS_TABLE_SIZE
InTable(c) == c < ESCAPED_CHARS_TABLE_SIZE

\* escaped_chars_delta_len[c].  The code reads it only behind InTable; a
\* read past the array would yield whatever cell lies there.
DeltaLen(c) == IF c \in TableIndex THEN escaped_chars_delta_len[c] ELSE 1

\* escaped_chars_repl[c].
Repl(c) == IF c \in TableIndex THEN escaped_chars_repl[c] ELSE NullRepl

\* *inp < ESCAPED_CHARS_TABLE_SIZE && escaped_chars_delta_len[*inp].
IsEscaped(c) == InTable(c) /\ DeltaLen(c) # 0

\* The table indices the test IsEscaped(c) reads.
TableReads(c) == IF InTable(c) THEN {c} ELSE {}

\* Line 60: while (*(inp) || inp < inp_end).
\* (Variant: && for ||, which stops at the first zero codepoint.)
ScanContinuesMutant(f) == Deref(f, f.inp) # 0 /\ f.inp < Length(f)
ScanContinues(f) == Deref(f, f.inp) # 0 \/ f.inp < Length(f)

\* Lines 61-65: the body of the scan loop.
\* (Variant: the delta counted one too high.)
ScanBodyMutant(f) ==
  LET c == Deref(f, f.inp)
  IN  IF IsEscaped(c)
      THEN [f EXCEPT !.delta = @ + DeltaLen(c) + 1, !.erepl = @ + 1, !.inp = @ + 1]
      ELSE [f EXCEPT !.inp = @ + 1]
ScanBody(f) ==
  LET c == Deref(f, f.inp)
  IN  IF IsEscaped(c)
      THEN [f EXCEPT !.delta = @ + DeltaLen(c), !.erepl = @ + 1, !.inp = @ + 1]
      ELSE [f EXCEPT !.inp = @ + 1]

\* Line 69: if (!erepl).
\* (Variant: the fast path never taken.)
NothingToEscapeMutant(f) == f.erepl < 0
NothingToEscape(f) == f.erepl = 0

\* Line 74: the size handed to PyUnicode_FromUnicode.
AllocSize(f) == Length(f) + f.delta

\* Lines 78-79: outp = out->str; inp = in->str, on a fresh buffer.
CopyEntry(f) ==
  [f EXCEPT !.out = [i \in 1 .. AllocSize(f) |-> Uninit], !.outp = 0, !.inp = 0]

\* Line 80: while (erepl-- > 0), and line 82 when the loop is entered.
LoopTest(f) == f.erepl > 0
LoopEnter(f) == [f EXCEPT !.erepl = @ - 1, !.next_escp = f.inp]
LoopLeave(f) == [f EXCEPT !.erepl = @ - 1]

\* Line 83: while (next_escp < inp_end).
FindContinues(f) == f.next_escp < Length(f)

\* Lines 84-85: the test of the search loop; it assigns delta_len whenever
\* the codepoint is below the table size.
FindHit(f) == IsEscaped(Deref(f, f.next_escp))
FindAssign(f) ==
  LET c == Deref(f, f.next_escp)
  IN  IF InTable(c) THEN [f EXCEPT !.delta_len = DeltaLen(c)] ELSE f

\* Lines 86-87: ++delta_len; break.
FindBreak(f) == [FindAssign(f) EXCEPT !.delta_len = @ + 1]

\* Line 89: ++next_escp.
FindAdvance(f) == [FindAssign(f) EXCEPT !.next_escp = @ + 1]

\* Py_UNICODE_COPY(target + at, source, n): the cells written, by 1-based
\* position in the output buffer.
Written(at, data) == [i \in (at + 1) .. (at + Len(data)) |-> data[i - at]]

\* The buffer after the copy; a cell past its end is not part of it.
Store(out, at, data) ==
  [i \in 1 .. Len(out) |-> IF i \in DOMAIN Written(at, data) THEN Written(at, data)[i] ELSE out[i]]

\* n cells read from 0-based index i of in->str.
InputRun(f, i, n) == [k \in 1 .. n |-> Deref(f, i + k - 1)]

\* n cells read from a replacement string (its buffer ends in a 0).
ReplRun(r, n) == [k \in 1 .. n |-> IF k <= Len(r) THEN r[k] ELSE 0]

\* Lines 92-96: copy the unescaped run between inp and next_escp.
RunLength(f) == IF f.next_escp > f.inp THEN f.next_escp - f.inp ELSE 0
CopyRun(f) ==
  [f EXCEPT !.out = Store(@, f.outp, InputRun(f, f.inp, RunLength(f))),
            !.outp = @ + RunLength(f)]

\* Lines 99-102: copy the replacement of *next_escp, step past it.
\* (Variant: inp left on the replaced codepoint.)
CopyReplMutant(f) ==
  [f EXCEPT !.out = Store(@, f.outp, ReplRun(Repl(Deref(f, f.next_escp)), f.delta_len)),
            !.outp = @ + f.delta_len,
            !.inp = f.next_escp]
CopyRepl(f) ==
  [f EXCEPT !.out = Store(@, f.outp, ReplRun(Repl(Deref(f, f.next_escp)), f.delta_len)),
            !.outp = @ + f.delta_len,
            !.inp = f.next_escp + 1]

\* Lines 104-105: the trailing run; outp is not advanced after it.
TailLength(f) == IF f.inp < Length(f) THEN Length(f) - f.inp ELSE 0
CopyTail(f) ==
  [f EXCEPT !.out = Store(@, f.outp, InputRun(f, f.inp, TailLength(f)))]

\* The scan loop run to its end (lines 60-66).
RECURSIVE ScanLoop(_)
ScanLoop(f) == IF ScanContinues(f) THEN ScanLoop(ScanBody(f)) ELSE f

\* The search loop run to its end (lines 83-90).
RECURSIVE FindLoop(_)
FindLoop(f) ==
  IF FindContinues(f)
  THEN IF FindHit(f) THEN FindBreak(f) ELSE FindLoop(FindAdvance(f))
  ELSE f

\* The copy loop run to its end (lines 80-103).
RECURSIVE CopyLoop(_)
CopyLoop(f) ==
  IF LoopTest(f)
  THEN CopyLoop(CopyRepl(CopyRun(FindLoop(LoopEnter(f)))))
  ELSE LoopLeave(f)

\* escape_unicode(in) when PyUnicode_FromUnicode returns a buffer: the
\* argument itself, or a new unicode object.
escape_unicode(in) ==
  LET f == ScanLoop(EuEntry(in))
  IN  IF NothingToEscape(f) THEN in
      ELSE Unicode(CopyTail(CopyLoop(CopyEntry(f))).out)

\* ------------------------------------------------------------------ escape
\* What a call has done so far.
NoObs ==
  [probes |-> 0,          \* lookups of __html__
   conversions |-> 0,     \* calls of PyObject_Unicode
   euCalls |-> 0,         \* calls of escape_unicode
   wrapArgs |-> <<>>,     \* the argument lists markup was called with
   decrefNull |-> FALSE,  \* Py_DECREF was applied to a null pointer
   scanned |-> <<>>,      \* input indices the scan loop's body examined
   tabIdx |-> {},         \* indices either table was read at
   replIdx |-> {},        \* indices escaped_chars_repl was dereferenced at
   copyReads |-> {},      \* input indices the copy pass read
   outOOB |-> FALSE,      \* a copy went past the end of the output buffer
   allocs |-> 0,          \* calls of PyUnicode_FromUnicode that returned a buffer
   allocLen |-> 0,        \* the size the buffer was allocated with
   shared |-> FALSE,      \* escape_unicode returned its argument itself
   replaced |-> {}]       \* codepoints a replacement was copied for

\* Lines 117-120 against 122.
AfterTypeCheck(v) == IF IsExactNumber(v) THEN "bypass" ELSE "probe"

\* Lines 123-128 against 131.
AfterProbe(v) == IF HasHtml(v) THEN "callhtml" ELSE "tounicode"

\* Lines 134-135: if (!unicode) return NULL.
\* (Variant: the NULL result not returned but passed on.)
AfterConversionMutant(u) == IF u = NULL THEN "wrap" ELSE "scan"
AfterConversion(u) == IF u = NULL THEN "done" ELSE "scan"

\* A caller invokes escape(v) on a fresh value.
Call ==
  /\ Callable
  /\ pc = "idle"
  /\ \E v \in ArgValues : text' = v
  /\ reapplied' = FALSE
  /\ pc' = "typecheck"
  /\ UNCHANGED <<ipc, tableVars, markup, registered, eu, s, rv, obs>>

\* The caller hands the value escape returned to escape again.
CallAgain ==
  /\ pc = "done"
  /\ rv # NULL
  /\ text' = rv
  /\ reapplied' = TRUE
  /\ pc' = "typecheck"
  /\ eu' = NoFrame
  /\ s' = NULL
  /\ rv' = NULL
  /\ obs' = NoObs
  /\ UNCHANGED <<ipc, tableVars, markup, registered>>

\* The caller is done with the returned value; the call's frame is gone.
Return ==
  /\ pc = "done"
  /\ pc' = "idle"
  /\ text' = NULL
  /\ reapplied' = FALSE
  /\ eu' = NoFrame
  /\ s' = NULL
  /\ rv' = NULL
  /\ obs' = NoObs
  /\ UNCHANGED <<ipc, tableVars, markup, registered>>

TypeCheck ==
  /\ pc = "typecheck"
  /\ pc' = AfterTypeCheck(text)
  /\ UNCHANGED <<ipc, tableVars, markup, registered, text, eu, s, rv, obs, reapplied>>

\* return PyObject_CallFunctionObjArgs(markup, text, NULL).
Bypass ==
  /\ pc = "bypass"
  /\ rv' = CallMarkup(CallArgs(text))
  /\ obs' = [obs EXCEPT !.wrapArgs = Append(@, CallArgs(text))]
  /\ pc' = "done"
  /\ UNCHANGED <<ipc, tableVars, markup, registered, text, eu, s, reapplied>>

\* PyObject *html = PyObject_GetAttrString(text, "__html__").
Probe ==
  /\ pc = "probe"
  /\ obs' = [obs EXCEPT !.probes = @ + 1]
  /\ pc' = AfterProbe(text)
  /\ UNCHANGED <<ipc, tableVars, markup, registered, text, eu, s, rv, reapplied>>

\* rv = PyObject_CallObject(html, NULL); return rv.
CallHtml ==
  /\ pc = "callhtml"
  /\ rv' = CallHtmlOf(text)
  /\ pc' = "done"
  /\ UNCHANGED <<ipc, tableVars, markup, registered, text, eu, s, obs, reapplied>>

\* Lines 132-140: convert unless already unicode, enter escape_unicode.
ToUnicode ==
  /\ pc = "tounicode"
  /\ IF PyUnicode_Check(text)
     THEN /\ eu' = EuEntry(text)
          /\ obs' = [obs EXCEPT !.euCalls = @ + 1]
          /\ pc' = "scan"
     ELSE LET unicode == PyObject_Unicode(text)
          IN  /\ pc' = AfterConversion(unicode)
              /\ eu' = IF unicode = NULL THEN eu ELSE EuEntry(unicode)
              /\ obs' = [obs EXCEPT !.conversions = @ + 1,
                                    !.euCalls = IF unicode = NULL THEN @ ELSE @ + 1]
  /\ UNCHANGED <<ipc, tableVars, markup, registered, text, s, rv, reapplied>>

\* One iteration of the scan loop.
ScanIter ==
  /\ pc = "scan"
  /\ ScanContinues(eu)
  /\ eu' = ScanBody(eu)
  /\ obs' = [obs EXCEPT !.scanned = Append(@, eu.inp),
                        !.tabIdx = @ \cup TableReads(Deref(eu, eu.inp))]
  /\ UNCHANGED <<ipc, tableVars, markup, registered, pc, text, s, rv, reapplied>>

\* The scan loop ends; line 69 picks the fast path or the copy pass.
ScanExit ==
  /\ pc = "scan"
  /\ ~ScanContinues(eu)
  /\ pc' = IF NothingToEscape(eu) THEN "fast" ELSE "alloc"
  /\ UNCHANGED <<ipc, tableVars, markup, registered, text, eu, s, rv, obs, reapplied>>

\* Py_INCREF(in); return (PyObject*)in.
FastPath ==
  /\ pc = "fast"
  /\ s' = eu.in
  /\ obs' = [obs EXCEPT !.shared = TRUE]
  /\ pc' = "wrap"
  /\ UNCHANGED <<ipc, tableVars, markup, registered, text, eu, rv, reapplied>>

\* out = PyUnicode_FromUnicode(NULL, in->length + delta) returns a buffer.
Alloc ==
  /\ pc = "alloc"
  /\ eu' = CopyEntry(eu)
  /\ obs' = [obs EXCEPT !.allocs = @ + 1, !.allocLen = AllocSize(eu)]
  /\ pc' = "loop"
  /\ UNCHANGED <<ipc, tableVars, markup, registered, text, s, rv, reapplied>>

\* PyUnicode_FromUnicode returns NULL: escape_unicode returns NULL.
AllocFail ==
  /\ pc = "alloc"
  /\ s' = NULL
  /\ pc' = "wrap"
  /\ UNCHANGED <<ipc, tableVars, markup, registered, text, eu, rv, obs, reapplied>>

\* while (erepl-- > 0).
LoopStep ==
  /\ pc = "loop"
  /\ IF LoopTest(eu)
     THEN eu' = LoopEnter(eu) /\ pc' = "find"
     ELSE eu' = LoopLeave(eu) /\ pc' = "tail"
  /\ UNCHANGED <<ipc, tableVars, markup, registered, text, s, rv, obs, reapplied>>

\* One test of the search loop for the next substitution: a hit breaks out
\* of it, a miss advances, and next_escp == inp_end leaves it.
FindStep ==
  /\ pc = "find"
  /\ IF FindContinues(eu)
     THEN /\ IF FindHit(eu)
             THEN eu' = FindBreak(eu) /\ pc' = "run"
             ELSE eu' = FindAdvance(eu) /\ pc' = "find"
          /\ obs' = [obs EXCEPT !.copyReads = @ \cup {eu.next_escp},
                                !.tabIdx = @ \cup TableReads(Deref(eu, eu.next_escp))]
     ELSE /\ pc' = "run"
          /\ UNCHANGED <<eu, obs>>
  /\ UNCHANGED <<ipc, tableVars, markup, registered, text, s, rv, reapplied>>

\* if (next_escp > inp) copy the run.
CopyRunStep ==
  /\ pc = "run"
  /\ eu' = CopyRun(eu)
  /\ obs' = [obs EXCEPT !.copyReads = @ \cup {eu.inp + k - 1 : k \in 1 .. RunLength(eu)},
                        !.outOOB = @ \/ eu.outp + RunLength(eu) > Len(eu.out)]
  /\ pc' = "repl"
  /\ UNCHANGED <<ipc, tableVars, markup, registered, text, s, rv, reapplied>>

\* Py_UNICODE_COPY(outp, escaped_chars_repl[*next_escp], delta_len).
CopyReplStep ==
  /\ pc = "repl"
  /\ eu' = CopyRepl(eu)
  /\ obs' = [obs EXCEPT !.copyReads = @ \cup {eu.next_escp},
                        !.tabIdx = @ \cup {Deref(eu, eu.next_escp)},
                        !.replIdx = @ \cup {Deref(eu, eu.next_escp)},
                        !.replaced = @ \cup {Deref(eu, eu.next_escp)},
                        !.outOOB = @ \/ eu.outp + eu.delta_len > Len(eu.out)]
  /\ pc' = "loop"
  /\ UNCHANGED <<ipc, tableVars, markup, registered, text, s, rv, reapplied>>

\* The trailing run, and return (PyObject*)out.
TailStep ==
  /\ pc = "tail"
  /\ eu' = CopyTail(eu)
  /\ obs' = [obs EXCEPT !.copyReads = @ \cup {eu.inp + k - 1 : k \in 1 .. TailLength(eu)},
                        !.outOOB = @ \/ eu.outp + TailLength(eu) > Len(eu.out)]
  /\ s' = Unicode(eu'.out)
  /\ pc' = "wrap"
  /\ UNCHANGED <<ipc, tableVars, markup, registered, text, rv, reapplied>>

\* rv = PyObject_CallFunctionObjArgs(markup, (PyObject*)s, NULL).
Wrap ==
  /\ pc = "wrap"
  /\ rv' = CallMarkup(CallArgs(s))
  /\ obs' = [obs EXCEPT !.wrapArgs = Append(@, CallArgs(s))]
  /\ pc' = "decref"
  /\ UNCHANGED <<ipc, tableVars, markup, registered, text, eu, s, reapplied>>

\* Py_DECREF(s); return rv.
Decref ==
  /\ pc = "decref"
  /\ s # NULL
  /\ pc' = "done"
  /\ UNCHANGED <<ipc, tableVars, markup, registered, text, eu, s, rv, obs, reapplied>>

\* Py_DECREF(s) with s == NULL writes through a null pointer: the process
\* dies, or the write goes unnoticed and escape returns rv.
DecrefNull ==
  /\ pc = "decref"
  /\ s = NULL
  /\ obs' = [obs EXCEPT !.decrefNull = TRUE]
  /\ \E outcome \in {"crashed", "done"} : pc' = outcome
  /\ UNCHANGED <<ipc, tableVars, markup, registered, text, eu, s, rv, reapplied>>

\* --------------------------------------------------------------- the system
Init ==
  /\ ipc = ReplSteps[1]
  /\ escaped_chars_delta_len = [i \in TableIndex |-> 0]
  /\ escaped_chars_repl = [i \in TableIndex |-> NullRepl]
  /\ markup = NULL
  /\ registered = FALSE
  /\ pc = "idle"
  /\ text = NULL
  /\ eu = NoFrame
  /\ s = NULL
  /\ rv = NULL
  /\ obs = NoObs
  /\ reapplied = FALSE

Next ==
  \/ SetRepl
  \/ SetReplCrash
  \/ Memset
  \/ SetDeltaFour
  \/ SetDeltaThree
  \/ ImportUtils
  \/ ImportUtilsFail
  \/ GetMarkup
  \/ InitModule
  \/ Call
  \/ CallAgain
  \/ Return
  \/ TypeCheck
  \/ Bypass
  \/ Probe
  \/ CallHtml
  \/ ToUnicode
  \/ ScanIter
  \/ ScanExit
  \/ FastPath
  \/ Alloc
  \/ AllocFail
  \/ LoopStep
  \/ FindStep
  \/ CopyRunStep
  \/ CopyReplStep
  \/ TailStep
  \/ Wrap
  \/ Decref
  \/ DecrefNull

Spec == Init /\ [][Next]_vars

\* ============================================================== properties
\* The replacement the specification names for a codepoint, spelled out.
RefRepl(c) ==
  CASE c = 34 -> <<38, 35, 51, 52, 59>>      \* "  ->  &#34;
    [] c = 39 -> <<38, 35, 51, 57, 59>>      \* '  ->  &#39;
    [] c = 38 -> <<38, 97, 109, 112, 59>>    \* &  ->  &amp;
    [] c = 60 -> <<38, 108, 116, 59>>        \* <  ->  &lt;
    [] c = 62 -> <<38, 103, 116, 59>>        \* >  ->  &gt;
    [] OTHER -> <<c>>

Escapable == {34, 39, 38, 60, 62}

RECURSIVE Reference(_)
Reference(t) == IF t = <<>> THEN <<>> ELSE RefRepl(Head(t)) \o Reference(Tail(t))

\* delta(c) = len(replacement) - 1, and its sum over a text.
RefDelta(c) == Len(RefRepl(c)) - 1

RECURSIVE RefSumDelta(_)
RefSumDelta(t) == IF t = <<>> THEN 0 ELSE RefDelta(Head(t)) + RefSumDelta(Tail(t))

RefCount(t) == Cardinality({i \in 1 .. Len(t) : t[i] \in Escapable})

Clean(t) == \A i \in 1 .. Len(t) : t[i] \notin Escapable

\* escape_unicode has been entered by the running call.
InEscaper == pc \in {"scan", "fast", "alloc", "loop", "find", "run", "repl", "tail"}

\* escape_unicode has returned to the running call.
EscaperReturned ==
  /\ pc \in {"wrap", "decref", "done", "crashed"}
  /\ obs.euCalls = 1

\* The literal scenarios of the specification.
TomAndJerry == <<84, 111, 109, 32, 38, 32, 74, 101, 114, 114, 121>>
TomAndJerryEscaped == <<84, 111, 109, 32, 38, 97, 109, 112, 59, 32, 74, 101, 114, 114, 121>>
BoldQuote == <<60, 98, 62, 34, 113, 34, 60, 47, 98, 62>>
BoldQuoteEscaped ==
  <<38, 108, 116, 59, 98, 38, 103, 116, 59, 38, 35, 51, 52, 59, 113, 38, 35, 51, 52, 59,
    38, 108, 116, 59, 47, 98, 38, 103, 116, 59>>
OBrien == <<79, 39, 66, 114, 105, 101, 110>>
OBrienEscaped == <<79, 38, 35, 51, 57, 59, 66, 114, 105, 101, 110>>

\* C1: whenever escape_unicode returns a text, that text is the reference
\* result for its input: every codepoint in order, each of " ' & < > replaced
\* by &#34; &#39; &amp; &lt; &gt; and every other codepoint kept; and the
\* literal scenarios come out as the specification lists them.
C1_EscapeEqualsReference ==
  /\ (EscaperReturned /\ s # NULL) => s.str = Reference(eu.in.str)
  /\ (Callable /\ pc = "idle") =>
       /\ escape_unicode(Unicode(TomAndJerry)).str = TomAndJerryEscaped
       /\ escape_unicode(Unicode(BoldQuote)).str = BoldQuoteEscaped
       /\ escape_unicode(Unicode(OBrien)).str = OBrienEscaped

C1_Witness ==
  /\ pc = "wrap"
  /\ obs.euCalls = 1
  /\ eu.in.str = <<35, AMP, 63>>
  /\ s # NULL
  /\ s.str = <<35, 38, 97, 109, 112, 59, 63>>

\* C2: the output buffer is allocated with exactly len(s) + the sum of the
\* deltas of the matching codepoints; the copy pass reads the input only at
\* indices below len(s), never writes past the allocated length, and ends
\* with every cell of the buffer written.
C2_ExactBuffer ==
  /\ (pc \in {"loop", "find", "run", "repl", "tail"} \/ (EscaperReturned /\ obs.allocs = 1)) =>
       /\ obs.allocs = 1
       /\ obs.allocLen = Len(eu.in.str) + RefSumDelta(eu.in.str)
       /\ Len(eu.out) = obs.allocLen
       /\ obs.copyReads \subseteq 0 .. (Len(eu.in.str) - 1)
       /\ ~obs.outOOB
  /\ pc = "run" => eu.outp + RunLength(eu) <= Len(eu.out)
  /\ pc = "repl" => eu.outp + eu.delta_len <= Len(eu.out)
  /\ pc = "tail" => eu.outp + TailLength(eu) <= Len(eu.out)
  /\ (EscaperReturned /\ obs.allocs = 1) =>
       /\ \A i \in 1 .. Len(eu.out) : eu.out[i] # Uninit
       /\ eu.outp + TailLength(eu) = obs.allocLen
       /\ Len(s.str) = obs.allocLen

C2_Witness ==
  /\ pc = "wrap"
  /\ obs.allocs = 1
  /\ eu.in.str = <<LT, 8364, QUOT>>
  /\ obs.allocLen = 10
  /\ \A i \in 1 .. Len(eu.out) : eu.out[i] # Uninit

\* C3: neither table is ever indexed outside 0..62, a codepoint of value 63
\* or more is never replaced, and the replacement table is dereferenced only
\* at one of the five escapable characters, whose delta is non-zero.
C3_TableBounds ==
  /\ obs.tabIdx \subseteq 0 .. 62
  /\ \A c \in obs.replaced : c < 63
  /\ \A c \in obs.replIdx : c \in Escapable /\ escaped_chars_delta_len[c] # 0
  /\ (EscaperReturned /\ s # NULL) =>
       \A i \in 1 .. Len(eu.in.str) :
         eu.in.str[i] >= 63 => \E j \in 1 .. Len(s.str) : s.str[j] = eu.in.str[i]

C3_Witness ==
  /\ pc = "wrap"
  /\ obs.euCalls = 1
  /\ eu.in.str = <<8364, GT, 63>>
  /\ obs.replIdx = {GT}
  /\ s # NULL
  /\ s.str = <<8364, 38, 103, 116, 59, 63>>

\* C4: when the input holds none of the five escapable characters (the empty
\* input included), escape_unicode returns the input object itself: nothing
\* is allocated and the returned text is the input.
C4_FastPathShares ==
  (EscaperReturned /\ Clean(eu.in.str)) =>
    /\ obs.shared
    /\ obs.allocs = 0
    /\ s = eu.in
    /\ eu.in = (IF PyUnicode_Check(text) THEN text ELSE PyObject_Unicode(text))
    /\ eu.out = <<>>

C4_Witness ==
  /\ pc = "wrap"
  /\ obs.euCalls = 1
  /\ eu.in.str = <<0, 35, 8364>>
  /\ obs.shared
  /\ s = text

\* C5: applying escape_unicode to its own result gives that result again if
\* and only if the input held none of the five escapable characters; and
\* escape applied to the value escape returned gives a value of the same
\* text again.  The second part is stated for the calls in which no
\* allocation failed.
C5_TagBasedIdempotence ==
  /\ (EscaperReturned /\ s # NULL) =>
       ((escape_unicode(s) = s) <=> Clean(eu.in.str))
  /\ (pc = "done" /\ reapplied /\ ~obs.decrefNull) =>
       /\ rv # NULL
       /\ rv.str = text.str

\* C6: escape dispatches in a fixed order.  (1) An exact int, long, float,
\* bool or None is returned wrapped by markup, with no lookup of __html__, no
\* conversion and no call of escape_unicode.  (2) Otherwise a value with an
\* __html__ method gets that method's result, with no call of escape_unicode
\* and no call of markup.  (3) Otherwise the value is converted to unicode
\* unless it is unicode already, escape_unicode is called exactly once, and
\* what it returned is returned wrapped by markup.
C6_DispatchOrder ==
  (pc \in {"done", "crashed"}) =>
    IF IsExactNumber(text)
    THEN /\ rv = MarkupOf(text.str)
         /\ obs.wrapArgs = << <<text>> >>
         /\ obs.probes = 0 /\ obs.conversions = 0 /\ obs.euCalls = 0
    ELSE IF HasHtml(text)
    THEN /\ rv = CallHtmlOf(text)
         /\ obs.probes = 1 /\ obs.conversions = 0 /\ obs.euCalls = 0
         /\ obs.wrapArgs = <<>>
    ELSE IF text = BrokenObject
    THEN rv = NULL
    ELSE /\ obs.probes = 1
         /\ obs.conversions = (IF PyUnicode_Check(text) THEN 0 ELSE 1)
         /\ obs.euCalls = 1
         /\ pc = "done"
         /\ s # NULL
         /\ obs.wrapArgs = << <<s>> >>
         /\ rv = MarkupOf(s.str)

\* The same dispatch, for the calls in which no allocation failed.
DispatchOrderUnlessAllocFails ==
  (pc \in {"done", "crashed"} /\ ~obs.decrefNull) => C6_DispatchOrder

\* C7: the tables are written only before the module is registered; from the
\* registration on they hold the five replacements and the 63 deltas and no
\* step changes them; and once init_constants has failed the module is not
\* registered, then or later.
FinalRepl == [i \in 0 .. 62 |-> IF i \in Escapable THEN RefRepl(i) ELSE <<>>]
FinalDelta == [i \in 0 .. 62 |-> IF i \in Escapable THEN RefDelta(i) ELSE 0]

C7_TableBuiltBeforeUse ==
  [][/\ registered' => (escaped_chars_repl' = FinalRepl /\ escaped_chars_delta_len' = FinalDelta)
     /\ (tableVars' # tableVars) => (~registered /\ ~registered' /\ pc = "idle" /\ pc' = "idle")
     /\ pc # "idle" => Callable
     /\ (ipc = "init_failed" \/ ipc' = "init_failed") => (~registered' /\ pc' = "idle")
     /\ ipc = "init_failed" => ipc' = "init_failed"
     /\ registered => registered']_vars

C7_Witness ==
  /\ Callable
  /\ pc = "done"
  /\ obs.allocs = 1
  /\ s # NULL
  /\ escaped_chars_repl = FinalRepl
  /\ escaped_chars_delta_len = FinalDelta

\* C8: when PyObject_Unicode fails, escape returns that failure: it is done
\* with rv NULL, escape_unicode was not called and markup was not called.
C8_ConversionFailurePropagates ==
  (text = BrokenObject /\ obs.conversions = 1) =>
    /\ pc = "done"
    /\ rv = NULL
    /\ obs.euCalls = 0
    /\ obs.wrapArgs = <<>>
    /\ s = NULL

C8_Witness ==
  /\ pc = "done"
  /\ text = BrokenObject
  /\ obs.conversions = 1
  /\ rv = NULL

\* C9: the scan pass examines the codepoints at indices 0..n-1, each once
\* and in order, and nothing at an index n or above, whatever the input
\* holds (zero codepoints included); when it ends erepl is the number of
\* escapable codepoints and delta the sum of their deltas.
C9_ScanExamsExactlyInput ==
  /\ (InEscaper \/ EscaperReturned) =>
       /\ Len(obs.scanned) <= Len(eu.in.str)
       /\ \A k \in 1 .. Len(obs.scanned) : obs.scanned[k] = k - 1
  /\ pc = "scan" => eu.inp = Len(obs.scanned)
  /\ pc \in {"fast", "alloc"} =>
       /\ Len(obs.scanned) = Len(eu.in.str)
       /\ eu.erepl = RefCount(eu.in.str)
       /\ eu.delta = RefSumDelta(eu.in.str)

C9_Witness ==
  /\ pc = "alloc"
  /\ eu.in.str = <<0, AMP, 0>>
  /\ obs.scanned = <<0, 1, 2>>
  /\ eu.erepl = 1
  /\ eu.delta = 4

\* C10: when escape_unicode returns NULL, escape returns NULL: markup is
\* called only with an escaped text as its argument, and Py_DECREF is never
\* applied to the missing result.
EscaperFailed == EscaperReturned /\ s = NULL

C10_AllocFailurePropagates ==
  /\ \A k \in 1 .. Len(obs.wrapArgs) : Len(obs.wrapArgs[k]) = 1
  /\ ~obs.decrefNull
  /\ (EscaperFailed /\ pc = "done") => rv = NULL
  /\ pc # "crashed"

====
